---- MODULE Spec2Model ----
(***************************************************************************)
(* A model of the paper analysis pipeline of LastWeek-MustRead-Arxiv:      *)
(*   - the reply parsers of the stage agents (src/src/agents/*.py),        *)
(*   - the stage agents and the orchestrator PaperAnalyzer.analyze_papers  *)
(*     (src/src/main.py),                                                  *)
(*   - the result store DatabaseManager (src/src/database/db_manager.py).  *)
(*                                                                         *)
(* Numbers.  The floats of the program are modelled in tenths: a           *)
(* confidence of 0.9 is 9, a score of 8.5 is 85, the range 0..10 of a      *)
(* score is 0..100.                                                        *)
(*                                                                         *)
(* Text.  A string is a sequence of tokens; the token SEP stands for the   *)
(* two characters ", " that join and split the authors.                    *)
(***************************************************************************)
EXTENDS Integers, Sequences, FiniteSets, TLC

VARIABLES
    \* ---- a reply parser or a stage agent called on its own
    reply,          \* what the gateway does for the call: raise, or a reply text
    use_sample_data,\* the agent's use_sample_data flag
    op,             \* the operation applied to reply ("none" before the call)
    out,            \* what the operation returned or raised
    \* ---- PaperAnalyzer.analyze_papers
    papers,         \* the batch returned by the fetcher
    pc,             \* position in analyze_papers
    idx,            \* index of the paper of the current loop iteration
    summary,        \* the local variables of analyze_papers, which live
    classification, \*   across the iterations of the loop
    assessment,
    score,
    rationale,
    results,        \* the list analyze_papers returns
    trace,          \* per paper: the stages started, in order (history)
    completed,      \* per paper: the number of stages that returned (history)
    status,         \* per paper: its state in the pipeline
    gwCalls,        \* per paper and stage: gateway invocations (history)
    stageErr,       \* per paper: the error its failing stage raised (history)
    saveRet,        \* per paper: what save_paper_analysis returned (history)
    dbFailed,       \* per paper: an error occurred inside the upsert (history)
    origin,         \* per local variable: the iteration that assigned it (history)
    used,           \* per paper and step: what it was given and returned (history)
    \* ---- the result store
    store,          \* the rows of table papers, in rowid order
    store0,         \* the rows the table held when the run began (history)
    now,            \* the clock behind created_at / updated_at
    calls           \* the store operations called directly, in order (history)

parserVars == <<reply, use_sample_data, op, out>>
batchVars == <<papers, pc, idx, summary, classification, assessment, score,
               rationale, results, trace, completed, status, gwCalls,
               stageErr, saveRet, dbFailed, origin, used>>
storeVars == <<store, store0, now, calls>>
vars == <<parserVars, batchVars, storeVars>>

----------------------------------------------------------------------------
(* JSON values as json.loads yields them.                                  *)

\* classifier.py:171  `0 <= confidence <= 1`, in tenths
ConfidenceMin == 0
ConfidenceMax == 10
\* novelty_assessor.py:186  `1 <= score <= 10`, in tenths
NoveltyMin == 10
NoveltyMax == 100
\* scorer.py:198 and :205  `0 <= score <= 10`, in tenths
ScoreMin == 0
ScoreMax == 100

\* How far outside a range the replies of the model go.
Over == 5

Num(n) == [t |-> "num", v |-> n]          \* a JSON number
NumStr(n) == [t |-> "numstr", v |-> n]    \* a JSON string that float() reads
Str == [t |-> "str", v |-> 0]             \* any other JSON string
Null == [t |-> "null", v |-> 0]
Bool(b) == [t |-> "bool", v |-> b]        \* true is 1, false is 0
NaN == [t |-> "nan", v |-> 0]             \* json.loads accepts NaN
List == [t |-> "list", v |-> 0]           \* a JSON array

\* float(x): a number and a numeric string convert, True is 1.0; x None, a list
\* or another string raises TypeError or ValueError.
Float(x) ==
    CASE x.t = "num" -> [ok |-> TRUE, nan |-> FALSE, v |-> x.v]
      [] x.t = "numstr" -> [ok |-> TRUE, nan |-> FALSE, v |-> x.v]
      [] x.t = "bool" -> [ok |-> TRUE, nan |-> FALSE, v |-> x.v * 10]
      [] x.t = "nan" -> [ok |-> TRUE, nan |-> TRUE, v |-> 0]
      [] OTHER -> [ok |-> FALSE, nan |-> FALSE, v |-> 0]

\* lo <= f <= hi on floats: every comparison with NaN is false.
Between(lo, f, hi) == ~f.nan /\ lo <= f.v /\ f.v <= hi

\* isinstance(x, (int, float)): bool is a subclass of int.
IsNumber(x) == x.t \in {"num", "bool", "nan"}

----------------------------------------------------------------------------
(* Replies and what a parser returns.                                      *)

\* A reply text: `fenced` says it holds a ``` block, `prose` that text stands
\* around the payload, `payload` is what json.loads makes of the payload:
\* a decode error, a value that is no object, or an object.  Of the values
\* that are no object a number or null does not support `in`, an array (or a
\* string) does and holds none of the keys.
Malformed == [json |-> "malformed"]
NonObject == [json |-> "nonobject"]
ArrayPayload == [json |-> "array"]
Object(o) == [json |-> "object", obj |-> o]

Text(fenced, prose, payload) ==
    [gw |-> "reply", fenced |-> fenced, prose |-> prose, payload |-> payload]
GatewayError == [gw |-> "raise"]

\* A variant: the JSON is looked for inside the prose as well.
CandidateIgnoringProse(result) == result.payload

\* re.search(r'```(?:json)?(.*?)```') / result.strip(): with a block the
\* candidate is its inner text, without one the whole reply, which decodes
\* only when nothing stands around the payload.
Candidate(result) ==
    IF result.fenced THEN result.payload
    ELSE IF result.prose THEN Malformed
    ELSE result.payload

\* A variant: the outer error does not carry the text of the inner one.
RaiseWithoutCause(e, m, c) ==
    [ok |-> FALSE, value |-> [kind |-> "none"], err |-> e, msg |-> m, cause |-> "none"]

\* What a parser hands back.  Every error of a parser is a ValueError: msg is
\* the head of its text ("Invalid JSON format in ... result" or "Failed to
\* parse ... result"), cause the str(e) of the inner error that follows it.
NoValue == [kind |-> "none"]
Return(v) == [ok |-> TRUE, value |-> v, err |-> "none", msg |-> "none", cause |-> "none"]
Raise(e, m, c) == [ok |-> FALSE, value |-> NoValue, err |-> e, msg |-> m, cause |-> c]

----------------------------------------------------------------------------
(* ClassifierAgent, src/src/agents/classifier.py                           *)

\* The default interested_fields of ClassifierAgent.__init__.
InterestedFields ==
    {"Large Language Models", "Computer Vision", "Reinforcement Learning",
     "Neural Architecture", "AI Safety"}

RequiredClassification == {"category", "confidence", "rationale"}

\* A faulty variant: the upper limit of the confidence is not checked.
ConfidenceInRangeNoUpper(confidence) == ~confidence.nan /\ ConfidenceMin <= confidence.v

\* `0 <= confidence <= 1`
ConfidenceInRange(confidence) == Between(ConfidenceMin, confidence, ConfidenceMax)

\* A variant: a category outside the interested fields is refused.
ParseClassificationStrict(result) ==
    LET cand == Candidate(result) IN
    IF cand.json = "malformed"
    THEN Raise("ValueError", "Invalid JSON format", "malformed")
    ELSE IF /\ cand.json = "object"
            /\ RequiredClassification \subseteq DOMAIN cand.obj
            /\ Float(cand.obj.confidence).ok
            /\ ConfidenceInRange(Float(cand.obj.confidence))
            /\ cand.obj.category \in InterestedFields \cup {"Other"}
    THEN Return(cand.obj)
    ELSE Raise("ValueError", "Failed to parse", "type")

_parse_classification_result(result) ==
    LET cand == Candidate(result) IN
    IF cand.json = "malformed"
    THEN Raise("ValueError", "Invalid JSON format", "malformed")
    ELSE IF cand.json = "array"
    THEN Raise("ValueError", "Failed to parse", "missing")
    ELSE IF cand.json # "object"
    THEN Raise("ValueError", "Failed to parse", "type")
    ELSE LET c == cand.obj IN
         IF ~(RequiredClassification \subseteq DOMAIN c)
         THEN Raise("ValueError", "Failed to parse", "missing")
         ELSE LET confidence == Float(c.confidence) IN
              IF ~confidence.ok
              THEN Raise("ValueError", "Failed to parse", "type")
              ELSE IF ~ConfidenceInRange(confidence)
              THEN Raise("ValueError", "Failed to parse", "range")
              ELSE Return(c)

----------------------------------------------------------------------------
(* NoveltyAssessorAgent, src/src/agents/novelty_assessor.py                *)

RequiredNovelty == {"score", "level", "description", "strengths", "limitations"}
ValidLevels == {"Low", "Moderate", "Significant", "Breakthrough"}

\* A faulty variant: the novelty score is checked against the range of the overall score.
NoveltyInRangeFromZero(s) == Between(ScoreMin, s, NoveltyMax)

\* `1 <= score <= 10`
NoveltyInRange(s) == Between(NoveltyMin, s, NoveltyMax)

\* A variant: a reply that does not decode is read as prose.
ParseNoveltyWithFallback(result) ==
    LET cand == Candidate(result) IN
    IF cand.json = "malformed"
    THEN Return([score |-> Num(85), level |-> "Breakthrough", description |-> "raw",
                 strengths |-> List, limitations |-> List])
    ELSE IF /\ cand.json = "object"
            /\ RequiredNovelty \subseteq DOMAIN cand.obj
            /\ Float(cand.obj.score).ok
            /\ NoveltyInRange(Float(cand.obj.score))
            /\ cand.obj.strengths.t = "list"
            /\ cand.obj.limitations.t = "list"
    THEN Return(cand.obj)
    ELSE Raise("ValueError", "Failed to parse", "type")

_parse_novelty_result(result) ==
    LET cand == Candidate(result) IN
    IF cand.json = "malformed"
    THEN Raise("ValueError", "Invalid JSON format", "malformed")
    ELSE IF cand.json = "array"
    THEN Raise("ValueError", "Failed to parse", "missing")
    ELSE IF cand.json # "object"
    THEN Raise("ValueError", "Failed to parse", "type")
    ELSE LET a == cand.obj IN
         IF ~(RequiredNovelty \subseteq DOMAIN a)
         THEN Raise("ValueError", "Failed to parse", "missing")
         ELSE LET s == Float(a.score) IN
              IF ~s.ok
              THEN Raise("ValueError", "Failed to parse", "type")
              ELSE IF ~NoveltyInRange(s)
              THEN Raise("ValueError", "Failed to parse", "range")
              ELSE IF a.strengths.t # "list"
              THEN Raise("ValueError", "Failed to parse", "shape")
              ELSE IF a.limitations.t # "list"
              THEN Raise("ValueError", "Failed to parse", "shape")
              ELSE Return(a)

----------------------------------------------------------------------------
(* ScorerAgent, src/src/agents/scorer.py                                   *)

\* The criteria the scorer's prompt asks for.
Criteria ==
    {"innovation", "technical_depth", "experimental_quality",
     "potential_impact", "practical_value"}

\* A breakdown as decoded: a JSON object (its entries in m) or another value.
Breakdown(m) == [isdict |-> TRUE, m |-> m]
NoDict == [isdict |-> FALSE, m |-> <<>>]

\* `0 <= score <= 10`
ScoreInRange(s) == Between(ScoreMin, s, ScoreMax)

\* A faulty variant: the entries of a breakdown are not validated.
SubScoreValidAlways(sub_score) == TRUE

\* `isinstance(sub_score, (int, float)) and 0 <= sub_score <= 10`
SubScoreValid(sub_score) ==
    IsNumber(sub_score) /\ Between(ScoreMin, Float(sub_score), ScoreMax)

_parse_scoring_result(result) ==
    LET cand == Candidate(result) IN
    IF cand.json = "malformed"
    THEN Raise("ValueError", "Invalid JSON format", "malformed")
    ELSE IF cand.json = "array"
    THEN Raise("ValueError", "Failed to parse", "missing")
    ELSE IF cand.json # "object"
    THEN Raise("ValueError", "Failed to parse", "type")
    ELSE LET scoring == cand.obj IN
         IF "score" \notin DOMAIN scoring \/ "rationale" \notin DOMAIN scoring
         THEN Raise("ValueError", "Failed to parse", "missing")
         ELSE LET s == Float(scoring.score) IN
              IF ~s.ok
              THEN Raise("ValueError", "Failed to parse", "type")
              ELSE IF ~ScoreInRange(s)
              THEN Raise("ValueError", "Failed to parse", "range")
              ELSE IF "breakdown" \in DOMAIN scoring
                      /\ ~scoring.breakdown.isdict
              THEN Raise("ValueError", "Failed to parse", "type")
              ELSE IF "breakdown" \in DOMAIN scoring
                      /\ \E category \in DOMAIN scoring.breakdown.m :
                            ~SubScoreValid(scoring.breakdown.m[category])
              THEN Raise("ValueError", "Failed to parse", "range")
              ELSE Return([score |-> s, scoring |-> scoring])

----------------------------------------------------------------------------
(* SummarizerAgent, src/src/agents/summarizer.py                           *)

\* A reply of the summarizer is a sequence of lines.  A line is its stripped
\* text, the heading markers that occur in it and the text that follows the
\* heading on the same line ("" when nothing does); a blank line has text "".
Line(heads, text, rest) == [heads |-> heads, text |-> text, rest |-> rest]
Lines(ls) == [gw |-> "reply", lines |-> ls]

EmptySections ==
    [research_problem |-> <<>>, methodology |-> <<>>, innovations |-> <<>>,
     findings |-> <<>>, impact |-> <<>>]

\* The if / elif chain over the markers, in the order of the code.
HeadingSection(line) ==
    IF "Research Problem:" \in line.heads THEN "research_problem"
    ELSE IF line.heads \cap {"Methodology:", "Main Methods:"} # {} THEN "methodology"
    ELSE IF line.heads \cap {"Key Innovations:", "Core Innovations:"} # {} THEN "innovations"
    ELSE IF line.heads \cap {"Findings", "Results:"} # {} THEN "findings"
    ELSE IF line.heads \cap {"Impact:", "Potential Impact:"} # {} THEN "impact"
    ELSE "none"

\* The loop over the lines: a section's text is the sequence of the lines
\* appended to it (joined by " ", the last one stripped).
RECURSIVE ScanLines(_, _, _, _)
ScanLines(lines, i, current_section, sections) ==
    IF i > Len(lines) THEN sections
    ELSE LET line == lines[i] IN
         IF line.text = ""
         THEN ScanLines(lines, i + 1, current_section, sections)
         ELSE IF HeadingSection(line) # "none"
         THEN ScanLines(lines, i + 1, HeadingSection(line), sections)
         ELSE IF current_section # "none"
         THEN ScanLines(lines, i + 1, current_section,
                        [sections EXCEPT ![current_section] = Append(@, line.text)])
         ELSE ScanLines(lines, i + 1, current_section, sections)

\* A faulty variant: text before the first heading goes to the first section.
ParseSummaryLeadingText(summary_text) ==
    ScanLines(summary_text.lines, 1, "research_problem", EmptySections)

_parse_summary_sections(summary_text) ==
    ScanLines(summary_text.lines, 1, "none", EmptySections)

----------------------------------------------------------------------------
(* The stage agents: one gateway call, then the parser.                    *)

\* A faulty variant: a failed gateway call is attempted a second time.
CallGatewayRetry(gw) == [calls |-> IF gw.gw = "raise" THEN 2 ELSE 1, response |-> gw]

\* self.client.chat.completions.create(...): one call, which raises or replies.
CallGateway(gw) == [calls |-> 1, response |-> gw]

\* What a stage call did: the number of gateway calls, and its outcome.
Called(n, outcome) == [calls |-> n] @@ outcome

SampleSummary ==
    [research_problem |-> <<"Sample research problem">>,
     methodology |-> <<"Sample methodology">>,
     innovations |-> <<"Sample innovations">>,
     findings |-> <<"Sample findings">>,
     impact |-> <<"Sample impact">>]

SampleClassification ==
    [category |-> "Large Language Models", confidence |-> Num(9),
     rationale |-> "Sample classification rationale"]

SampleNovelty ==
    [score |-> Num(85), level |-> "Significant",
     description |-> "Sample novelty assessment",
     strengths |-> List, limitations |-> List]

SampleScoring ==
    [score |-> Num(85), rationale |-> "Sample scoring rationale",
     breakdown |-> Breakdown(
        [c \in Criteria |->
            CASE c = "innovation" -> Num(80)
              [] c = "potential_impact" -> Num(90)
              [] OTHER -> Num(85)])]

summarize_paper(sample, gw) ==
    IF sample THEN Called(0, Return(SampleSummary))
    ELSE LET g == CallGateway(gw) IN
         IF g.response.gw = "raise"
         THEN Called(g.calls, Raise("RuntimeError", "Failed to generate summary", "gateway"))
         ELSE Called(g.calls, Return(_parse_summary_sections(g.response)))

classify_paper(sample, gw) ==
    IF sample THEN Called(0, Return(SampleClassification))
    ELSE LET g == CallGateway(gw) IN
         IF g.response.gw = "raise"
         THEN Called(g.calls, Raise("RuntimeError", "Failed to classify paper", "gateway"))
         ELSE LET parsed == _parse_classification_result(g.response) IN
              IF parsed.ok THEN Called(g.calls, parsed)
              ELSE Called(g.calls, Raise("RuntimeError", "Failed to classify paper", parsed.cause))

assess_novelty(sample, gw) ==
    IF sample THEN Called(0, Return(SampleNovelty))
    ELSE LET g == CallGateway(gw) IN
         IF g.response.gw = "raise"
         THEN Called(g.calls, Raise("RuntimeError", "Failed to assess paper novelty", "gateway"))
         ELSE LET parsed == _parse_novelty_result(g.response) IN
              IF parsed.ok THEN Called(g.calls, parsed)
              ELSE Called(g.calls, Raise("RuntimeError", "Failed to assess paper novelty", parsed.cause))

score_paper(sample, gw) ==
    IF sample
    THEN Called(0, Return([score |-> Float(Num(85)), scoring |-> SampleScoring]))
    ELSE LET g == CallGateway(gw) IN
         IF g.response.gw = "raise"
         THEN Called(g.calls, Raise("RuntimeError", "Failed to score paper", "gateway"))
         ELSE LET parsed == _parse_scoring_result(g.response) IN
              IF parsed.ok THEN Called(g.calls, parsed)
              ELSE Called(g.calls, Raise("RuntimeError", "Failed to score paper", parsed.cause))

----------------------------------------------------------------------------
(* The replies the model feeds the parsers and the agents.                 *)

\* A reply envelope: a fenced block (with or without prose around it), bare
\* JSON, or JSON with prose around it and no fence.
Envelopes == {<<TRUE, TRUE>>, <<TRUE, FALSE>>, <<FALSE, FALSE>>, <<FALSE, TRUE>>}

NumbersAround(lo, hi) ==
    {lo - Over, lo - 1, lo, (lo + hi) \div 2, hi, hi + 1, hi + Over}

\* The values a reply gives a numeric field whose range is lo..hi.
ValuesAround(lo, hi) ==
    {Num(n) : n \in NumbersAround(lo, hi)}
        \cup {NumStr((lo + hi) \div 2), NumStr(hi + Over), Str, Null,
              Bool(1), Bool(0), NaN, List}

\* The objects that hold all of the keys, all but one, or none: field k
\* holds val[k].
ObjectsOver(keys, val) ==
    {[k \in K |-> val[k]] : K \in {keys, {}} \cup {keys \ {k} : k \in keys}}

Categories == {"Large Language Models", "Other", "Quantum Computing"}

ClassificationObjects ==
    UNION {ObjectsOver(RequiredClassification,
               [category |-> cat, confidence |-> conf, rationale |-> "why"]) :
           cat \in Categories, conf \in ValuesAround(ConfidenceMin, ConfidenceMax)}

NoveltyObjects ==
    UNION {ObjectsOver(RequiredNovelty,
               [score |-> s, level |-> lv, description |-> "what",
                strengths |-> st, limitations |-> li]) :
           s \in ValuesAround(NoveltyMin, NoveltyMax),
           lv \in {"Significant", "High"},
           st \in {List, Str}, li \in {List, Str}}

\* Breakdowns over the five criteria, over some of them, over none, and with
\* a name outside them; every entry is 8.0 but at most one, which holds w.
SubScores == {Num(ScoreMin - Over), Num(ScoreMax + Over), NumStr(80), Bool(1), NaN}
BreakdownKeySets ==
    {Criteria, Criteria \ {"practical_value"}, {"innovation"}, {},
     Criteria \cup {"clarity"}}
Breakdowns ==
    {Breakdown([k \in K |-> IF k = odd THEN w ELSE Num(80)]) :
        K \in BreakdownKeySets, odd \in {"innovation", "clarity"},
        w \in SubScores \cup {Num(80)}}
        \cup {NoDict}

ScoringObjects ==
    UNION {ObjectsOver({"score", "rationale", "breakdown"},
               [score |-> s, rationale |-> "why", breakdown |-> b]) :
           s \in {Num(ScoreMin - Over), Num(ScoreMin), Num(85), Num(ScoreMax),
                  Num(ScoreMax + Over), Str},
           b \in Breakdowns}

Replies(objects) ==
    {Text(e[1], e[2], p) : e \in Envelopes,
                           p \in {Malformed, NonObject, ArrayPayload}
                                   \cup {Object(o) : o \in objects}}

\* Replies in plain prose, with no JSON in them: what json.loads refuses.  The
\* prose of a classifier names some of the categories; the prose of a novelty
\* assessor holds a score written "<number>/10" and some keywords.
Prose(content) == Text(FALSE, TRUE, [json |-> "malformed", content |-> content])
ClassificationProse ==
    {Prose([names |-> ns]) :
        ns \in {{}, {"Computer Vision"}, {"Computer Vision", "AI Safety"}}}
NoveltyProse ==
    {Prose([ratio |-> 85, keywords |-> ks]) : ks \in {{}, {"breakthrough"}}}

ClassificationReplies == Replies(ClassificationObjects) \cup ClassificationProse
NoveltyReplies == Replies(NoveltyObjects) \cup NoveltyProse
ScoringReplies == Replies(ScoringObjects)

SummaryLines ==
    {Line({}, "", ""), Line({}, "text one", ""), Line({}, "text two", ""),
     Line({"Research Problem:"}, "Research Problem: Test problem", "Test problem"),
     Line({"Methodology:"}, "Methodology:", ""),
     Line({"Main Methods:"}, "Main Methods: Test method", "Test method"),
     Line({"Findings", "Results:"}, "Findings/Results: Test findings", "Test findings"),
     Line({"Impact:", "Potential Impact:"}, "Potential Impact:", "")}

\* The longest reply of the summarizer, in lines.
MaxLines == 2
SummaryReplies ==
    {Lines(ls) : ls \in UNION {[1..n -> SummaryLines] : n \in 0..MaxLines}}

----------------------------------------------------------------------------
(* DatabaseManager, src/src/database/db_manager.py                         *)

SEP == ", "

\* ", ".join(authors)
RECURSIVE Join(_)
Join(names) ==
    IF names = <<>> THEN <<>>
    ELSE IF Len(names) = 1 THEN names[1]
    ELSE names[1] \o <<SEP>> \o Join(Tail(names))

\* x.split(", "): the parts between the separators; "" splits into [""].
RECURSIVE Split(_)
Split(text) ==
    IF \A i \in 1..Len(text) : text[i] # SEP THEN <<text>>
    ELSE LET i == CHOOSE k \in 1..Len(text) :
                      text[k] = SEP /\ \A j \in 1..(k - 1) : text[j] # SEP
         IN <<SubSeq(text, 1, i - 1)>> \o Split(SubSeq(text, i + 1, Len(text)))

\* The value of a field that may hold a string or a dict.
StrValue(text) == [kind |-> "str", text |-> text]
DictValue(d) == [kind |-> "dict", dict |-> d]

\* The authors of a record: a list of names, or one string.
AuthorList(names) == [islist |-> TRUE, v |-> names]
AuthorString(text) == [islist |-> FALSE, v |-> <<text>>]

\* A date column holds text: "YYYY-MM-DD" (strftime("%Y-%m-%d")), the same
\* with a time of day after it, or text that is no date.  Days are numbered.
DateStr(day) == [form |-> "date", day |-> day]
DateTimeStr(day) == [form |-> "datetime", day |-> day]
BadDate == [form |-> "malformed", day |-> 0]

RequiredFields ==
    {"paper_id", "title", "authors", "published_date", "processed_date",
     "summary", "classification", "novelty_assessment", "score",
     "scoring_rationale"}

\* missing_fields = [field for field in required_fields if field not in paper_result]
MissingFields(paper_result) == RequiredFields \ DOMAIN paper_result

\* sqlite3 binds None, int, float, str and bytes; a dict raises
\* ProgrammingError ("type 'dict' is not supported") in cursor.execute.
Bindable(paper_result) ==
    /\ paper_result.summary.kind = "str"
    /\ paper_result.scoring_rationale.kind = "str"

\* json.dumps / json.loads of a dict that json.loads produced.
Dumps(d) == [jsontext |-> d]
Loads(j) == j.jsontext

\* The tuple bound to the INSERT OR REPLACE statement.
RowOf(paper_result, t) ==
    [id |-> paper_result.paper_id,
     title |-> paper_result.title,
     authors |-> IF paper_result.authors.islist
                 THEN Join(paper_result.authors.v)
                 ELSE paper_result.authors.v[1],
     published_date |-> paper_result.published_date,
     processed_date |-> paper_result.processed_date,
     summary |-> paper_result.summary.text,
     classification |-> Dumps(paper_result.classification),
     novelty_assessment |-> Dumps(paper_result.novelty_assessment),
     score |-> paper_result.score,
     scoring_rationale |-> paper_result.scoring_rationale.text,
     created_at |-> t,
     updated_at |-> t]

\* A variant: a plain INSERT into a table without the primary key.
InsertOnly(rows, row) == Append(rows, row)

\* INSERT OR REPLACE on the primary key id: the row with that id is deleted
\* and the new row gets the next rowid.
InsertOrReplace(rows, row) ==
    Append(SelectSeq(rows, LAMBDA x : x.id # row.id), row)

\* A faulty variant: an error inside the upsert is raised to the caller.
SaveOutcomeRaising(rows, paper_result, db_ok, t) ==
    IF RequiredFields \ DOMAIN paper_result # {}
    THEN [raised |-> TRUE, ret |-> FALSE, failed |-> FALSE, rows |-> rows,
          named |-> MissingFields(paper_result)]
    ELSE IF ~db_ok \/ ~Bindable(paper_result)
    THEN [raised |-> TRUE, ret |-> FALSE, failed |-> TRUE, rows |-> rows, named |-> {}]
    ELSE [raised |-> FALSE, ret |-> TRUE, failed |-> FALSE,
          rows |-> InsertOrReplace(rows, RowOf(paper_result, t)), named |-> {}]

\* A variant: a record that lacks fields is refused with False.
SaveOutcomeNoRaise(rows, paper_result, db_ok, t) ==
    IF RequiredFields \ DOMAIN paper_result # {} \/ ~db_ok \/ ~Bindable(paper_result)
    THEN [raised |-> FALSE, ret |-> FALSE, failed |-> TRUE, rows |-> rows, named |-> {}]
    ELSE [raised |-> FALSE, ret |-> TRUE, failed |-> FALSE,
          rows |-> InsertOrReplace(rows, RowOf(paper_result, t)), named |-> {}]

\* A faulty variant: a failing upsert has removed the row it was to replace.
SaveOutcomeHalfReplaced(rows, paper_result, db_ok, t) ==
    IF RequiredFields \ DOMAIN paper_result # {}
    THEN [raised |-> TRUE, ret |-> FALSE, failed |-> FALSE, rows |-> rows,
          named |-> MissingFields(paper_result)]
    ELSE IF ~db_ok \/ ~Bindable(paper_result)
    THEN [raised |-> FALSE, ret |-> FALSE, failed |-> TRUE,
          rows |-> SelectSeq(rows, LAMBDA x : x.id # paper_result.paper_id),
          named |-> {}]
    ELSE [raised |-> FALSE, ret |-> TRUE, failed |-> FALSE,
          rows |-> InsertOrReplace(rows, RowOf(paper_result, t)), named |-> {}]

\* save_paper_analysis on the table `rows` at time t; db_ok says whether
\* connect, execute and commit work.  It raises ValueError for a missing
\* field; every error inside the try block is logged and makes it return
\* False, with nothing committed.
save_paper_analysis(rows, paper_result, db_ok, t) ==
    IF RequiredFields \ DOMAIN paper_result # {}
    THEN [raised |-> TRUE, ret |-> FALSE, failed |-> FALSE, rows |-> rows,
          named |-> MissingFields(paper_result)]
    ELSE IF ~db_ok \/ ~Bindable(paper_result)
    THEN [raised |-> FALSE, ret |-> FALSE, failed |-> TRUE, rows |-> rows, named |-> {}]
    ELSE [raised |-> FALSE, ret |-> TRUE, failed |-> FALSE,
          rows |-> InsertOrReplace(rows, RowOf(paper_result, t)), named |-> {}]

NotFound == [found |-> FALSE]

\* A variant: the query has no WHERE clause.
GetFirstRow(rows, paper_id, db_ok) ==
    IF ~db_ok \/ rows = <<>> THEN NotFound
    ELSE [found |-> TRUE,
          paper |-> [rows[1] EXCEPT
                        !.classification = Loads(@),
                        !.novelty_assessment = Loads(@),
                        !.authors = Split(@)]]

\* get_paper_by_id: None when no row has the id or the query fails, else the
\* row as a dict, its JSON columns decoded and its authors split.
get_paper_by_id(rows, paper_id, db_ok) ==
    LET hits == SelectSeq(rows, LAMBDA x : x.id = paper_id) IN
    IF ~db_ok \/ hits = <<>> THEN NotFound
    ELSE [found |-> TRUE,
          paper |-> [hits[1] EXCEPT
                        !.classification = Loads(@),
                        !.novelty_assessment = Loads(@),
                        !.authors = Split(@)]]

\* The fields of a paper read from the store that a record holds, under the
\* record's names: id is paper_id, the timestamps are left out.
AsRecord(paper) ==
    [paper_id |-> paper.id,
     title |-> paper.title,
     authors |-> AuthorList(paper.authors),
     published_date |-> paper.published_date,
     processed_date |-> paper.processed_date,
     summary |-> StrValue(paper.summary),
     classification |-> paper.classification,
     novelty_assessment |-> paper.novelty_assessment,
     score |-> paper.score,
     scoring_rationale |-> StrValue(paper.scoring_rationale)]

\* The dict a row is returned as by the queries: its JSON columns decoded and
\* its authors split.
DecodedRow(row) ==
    [row EXCEPT !.classification = Loads(@),
                !.novelty_assessment = Loads(@),
                !.authors = Split(@)]

\* SQLite's DATE(text): the day of a date or of a date with a time, NULL for
\* text that is no date.
NullDate == [null |-> TRUE, day |-> 0]
SqlDate(text) ==
    IF text.form = "malformed" THEN NullDate ELSE [null |-> FALSE, day |-> text.day]

\* A comparison with NULL is not true.
SqlDateEq(a, b) == ~a.null /\ ~b.null /\ a.day = b.day
SqlDateGe(a, b) == ~a.null /\ ~b.null /\ a.day >= b.day

\* A variant: the date column is compared as text.
MatchesDateAsText(processed_date, date_str) == processed_date = date_str

\* `WHERE DATE(processed_date) = DATE(?)`
MatchesDate(processed_date, date_str) ==
    SqlDateEq(SqlDate(processed_date), SqlDate(date_str))

\* get_papers_by_date: the rows of the date in the order of the table scan,
\* decoded; [] when the query fails.
get_papers_by_date(rows, date_str, db_ok) ==
    IF ~db_ok THEN <<>>
    ELSE LET hits == SelectSeq(rows, LAMBDA x : MatchesDate(x.processed_date, date_str))
         IN [k \in 1..Len(hits) |-> DecodedRow(hits[k])]

\* The optional argument `days` of get_top_papers.
NoDays == [some |-> FALSE, v |-> 0]
Days(v) == [some |-> TRUE, v |-> v]

\* `if days:` -- None and 0 are both false.
Windowed(days) == days.some /\ days.v # 0

\* `WHERE DATE(processed_date) >= DATE('now', '-<days> days')`
InWindow(processed_date, today, days) ==
    SqlDateGe(SqlDate(processed_date), [null |-> FALSE, day |-> today - days.v])

\* ORDER BY score DESC names no tie-breaker.  SQLite returns rows of equal
\* score in the order of its plan: a backward scan of idx_score gives them by
\* descending rowid (SQLite 3.40 on this schema), a sort of the table scan by
\* ascending rowid.  rows is in rowid order.
Plans == {"index", "sort"}
Before(rows, i, j, plan) ==
    \/ rows[i].score > rows[j].score
    \/ /\ rows[i].score = rows[j].score
       /\ IF plan = "index" THEN i > j ELSE i < j

\* ORDER BY score DESC
OrderByScoreDesc(rows, plan) ==
    LET rank(i) == Cardinality({j \in 1..Len(rows) : Before(rows, j, i, plan)}) + 1
    IN [k \in 1..Len(rows) |-> rows[CHOOSE i \in 1..Len(rows) : rank(i) = k]]

\* LIMIT n: a negative n is no limit.
Limit(rows, n) ==
    IF n < 0 \/ n >= Len(rows) THEN rows ELSE SubSeq(rows, 1, n)

\* get_top_papers on the day `today` of SQLite's clock; [] when the query
\* fails.
get_top_papers(rows, n, days, today, plan, db_ok) ==
    IF ~db_ok THEN <<>>
    ELSE LET considered ==
                 IF Windowed(days)
                 THEN SelectSeq(rows, LAMBDA x : InWindow(x.processed_date, today, days))
                 ELSE rows
             top == Limit(OrderByScoreDesc(considered, plan), n)
         IN [k \in 1..Len(top) |-> DecodedRow(top[k])]

\* `LIMIT 5` of the category query.
TopCategoriesLimit == 5

\* Scores are held in tenths; the statistics are rounded to two decimals and
\* held in hundredths.  round(a / b) to the nearest integer; a tie needs a
\* mean over four rows or more.
RoundDiv(a, b) == (2 * a + b) \div (2 * b)

RECURSIVE SumScores(_)
SumScores(rows) ==
    IF rows = <<>> THEN 0 ELSE Head(rows).score + SumScores(Tail(rows))

\* The result of the except branch of get_statistics.
ZeroStatistics ==
    [total_papers |-> 0, avg_score |-> 0, max_score |-> 0,
     first_date |-> NullDate, last_date |-> NullDate, total_days |-> 0,
     top_categories |-> <<>>]

\* NULL, as AVG and MAX give it over no row.
NullScore == -1

\* A variant: the NULL of an aggregate over no row is passed on.
OrNull(rows, value) == IF rows = <<>> THEN NullScore ELSE value

\* `round(avg_score, 2) if avg_score else 0`: NULL and 0 give 0.
OrZero(rows, value) == IF rows = <<>> THEN 0 ELSE value

\* `GROUP BY classification ORDER BY count DESC LIMIT 5`: the groups are the
\* distinct JSON texts of the column; the order among equal counts is the
\* database's.
CategoryGroups(rows) ==
    LET texts == {rows[k].classification : k \in 1..Len(rows)}
        count(c) == Cardinality({k \in 1..Len(rows) : rows[k].classification = c})
        n == IF Cardinality(texts) < TopCategoriesLimit
             THEN Cardinality(texts) ELSE TopCategoriesLimit
        order == CHOOSE f \in [1..n -> texts] :
                    /\ \A a, b \in 1..n : a < b => f[a] # f[b] /\ count(f[a]) >= count(f[b])
                    /\ \A c \in texts :
                          (\A a \in 1..n : f[a] # c) => \A a \in 1..n : count(f[a]) >= count(c)
    IN [k \in 1..n |-> [classification |-> order[k], count |-> count(order[k])]]

\* get_statistics: COUNT, AVG and MAX of the scores (NULL over no row), the
\* range of the processed dates, and the largest category groups.  A group
\* whose classification has no category, or a failing query, gives the
\* zeroed result.
get_statistics(rows, db_ok) ==
    LET groups == CategoryGroups(rows)
        dates == {SqlDate(rows[k].processed_date).day :
                     k \in {j \in 1..Len(rows) : ~SqlDate(rows[j].processed_date).null}}
        scores == {rows[k].score : k \in 1..Len(rows)}
        max == CHOOSE m \in scores : \A x \in scores : x <= m
        avg == RoundDiv(10 * SumScores(rows), Len(rows))
    IN IF ~db_ok THEN ZeroStatistics
       ELSE IF \E k \in 1..Len(groups) :
                  "category" \notin DOMAIN Loads(groups[k].classification)
       THEN ZeroStatistics
       ELSE [total_papers |-> Len(rows),
             avg_score |-> OrZero(rows, avg),
             max_score |-> OrZero(rows, 10 * max),
             first_date |-> IF dates = {} THEN NullDate
                            ELSE [null |-> FALSE,
                                  day |-> CHOOSE d \in dates : \A x \in dates : d <= x],
             last_date |-> IF dates = {} THEN NullDate
                           ELSE [null |-> FALSE,
                                 day |-> CHOOSE d \in dates : \A x \in dates : d >= x],
             total_days |-> Cardinality(dates),
             top_categories |->
                 [k \in 1..Len(groups) |->
                     [category |-> Loads(groups[k].classification).category,
                      count |-> groups[k].count]]]

----------------------------------------------------------------------------
(* PaperAnalyzer.analyze_papers, src/src/main.py                           *)

\* The most papers of a batch.
MaxPapers == 2

\* A paper as ArxivFetcher._format_paper builds it; identifiers are numbers.
PaperOf(id) ==
    [id |-> id, title |-> id,
     authors |-> IF id % 2 = 1 THEN <<(<<"Doe">>), (<<"Roe">>)>> ELSE <<(<<"Doe">>)>>,
     published |-> DateStr(1)]

Stages == <<"summarize", "classify", "novelty", "score", "save">>

\* A faulty variant: the result is saved right after the summary.
NextStageEarlySave(stage) ==
    CASE stage = "summarize" -> "save"
      [] stage = "classify" -> "novelty"
      [] stage = "novelty" -> "score"
      [] stage = "score" -> "save"
      [] OTHER -> "summarize"

\* A faulty variant: the novelty assessment runs before the classification.
NextStageSwapped(stage) ==
    CASE stage = "summarize" -> "novelty"
      [] stage = "novelty" -> "classify"
      [] stage = "classify" -> "score"
      [] stage = "score" -> "save"
      [] OTHER -> "summarize"

\* The statement that follows a stage's call in the try block.
NextStage(stage) ==
    CASE stage = "summarize" -> "classify"
      [] stage = "classify" -> "novelty"
      [] stage = "novelty" -> "score"
      [] stage = "score" -> "save"
      [] OTHER -> "summarize"

\* A faulty variant: the handler leaves the loop.
AfterPaperBreak(i, n) == "done"

\* A faulty variant: the next paper starts at its classification, with the
\* summary the loop still holds.
AfterPaperKeepingSummary(i, n) == IF i < n THEN "classify" ELSE "done"

\* `continue` / the end of the loop body: the next paper, or the return.
AfterPaper(i, n) == IF i < n THEN "summarize" ELSE "done"

\* `except Exception as e: logger.error(...); continue`
AfterStageError(i, n) == AfterPaper(i, n)

Unbound == [kind |-> "unbound"]

\* The local variables the loop body assigns, the one a stage assigns
\* (score_paper assigns score and rationale together) and the ones a step is
\* given: classify_paper(paper, summary), assess_novelty(paper, summary),
\* score_paper(paper, summary, classification, assessment), and the result
\* dict, which reads them all.
LocalVariables == {"summary", "classification", "assessment", "score"}
AssignedBy(stage) ==
    CASE stage = "summarize" -> "summary"
      [] stage = "classify" -> "classification"
      [] stage = "novelty" -> "assessment"
      [] OTHER -> "score"
GivenTo(step) ==
    CASE step = "summarize" -> {}
      [] step = "classify" -> {"summary"}
      [] step = "novelty" -> {"summary"}
      [] step = "score" -> {"summary", "classification", "assessment"}
      [] OTHER -> LocalVariables
NotRun == [given |-> {}, returned |-> NoValue]

\* What the gateway does for a stage call of the batch: it raises, or replies
\* with one of two well-formed texts or a text its parser rejects.
BatchGateway(stage) ==
    CASE stage = "summarize" ->
            {GatewayError,
             Lines(<<Line({"Research Problem:"}, "Research Problem:", ""), Line({}, "text one", "")>>),
             Lines(<<Line({"Methodology:"}, "Methodology:", ""), Line({}, "text two", "")>>)}
      [] stage = "classify" ->
            {GatewayError,
             Text(TRUE, FALSE, Object([category |-> "Other", confidence |-> Num(5),
                                       rationale |-> "why"])),
             Text(TRUE, FALSE, Object([category |-> "AI Safety", confidence |-> Num(9),
                                       rationale |-> "why"])),
             Text(TRUE, FALSE, Object([category |-> "Other", confidence |-> Num(15),
                                       rationale |-> "why"]))}
      [] stage = "novelty" ->
            {GatewayError,
             Text(FALSE, FALSE, Object([score |-> Num(85), level |-> "Significant",
                                        description |-> "what", strengths |-> List,
                                        limitations |-> List])),
             Text(FALSE, FALSE, Object([score |-> Num(30), level |-> "Low",
                                        description |-> "what", strengths |-> List,
                                        limitations |-> List])),
             Text(FALSE, TRUE, Malformed)}
      [] OTHER ->
            {GatewayError,
             Text(TRUE, TRUE, Object([score |-> Num(85), rationale |-> "why"])),
             Text(TRUE, TRUE, Object([score |-> Num(40), rationale |-> "why",
                                      breakdown |-> Breakdown([c \in Criteria |-> Num(40)])])),
             Text(TRUE, TRUE, Object([score |-> Num(85)]))}

\* The bookkeeping of a stage call of paper i that ended with `called`.
StageBookkeeping(stage, called) ==
    /\ trace' = [trace EXCEPT ![idx] = Append(@, stage)]
    /\ gwCalls' = [gwCalls EXCEPT ![idx][stage] = @ + called.calls]
    /\ used' = [used EXCEPT ![idx][stage] =
                   [given |-> {origin[v] : v \in GivenTo(stage)},
                    returned |-> called.value]]
    /\ origin' = IF called.ok THEN [origin EXCEPT ![AssignedBy(stage)] = idx]
                 ELSE origin
    /\ IF called.ok
       THEN /\ completed' = [completed EXCEPT ![idx] = @ + 1]
            /\ pc' = NextStage(stage)
            /\ UNCHANGED <<idx, stageErr>>
            /\ status' = [status EXCEPT ![idx] =
                    CASE stage = "summarize" -> "Summarized"
                      [] stage = "classify" -> "Classified"
                      [] stage = "novelty" -> "NoveltyAssessed"
                      [] OTHER -> "Scored"]
       ELSE /\ pc' = AfterStageError(idx, Len(papers))
            /\ idx' = idx + 1
            /\ status' = [status EXCEPT ![idx] = "Failed"]
            /\ stageErr' = [stageErr EXCEPT ![idx] = [err |-> called.err, cause |-> called.cause]]
            /\ UNCHANGED completed

\* self.db_manager.initialize_database(): it re-raises what goes wrong.
InitializeDatabase ==
    /\ pc = "init"
    /\ \E db_ok \in BOOLEAN : pc' = IF db_ok THEN "fetch" ELSE "raised"
    /\ UNCHANGED <<papers, idx, summary, classification, assessment, score,
                   rationale, results, trace, completed, status, gwCalls,
                   stageErr, saveRet, dbFailed, origin, used>>
    /\ UNCHANGED <<parserVars, storeVars>>

\* self.fetcher.get_papers(...): never empty, the fetcher falls back to its
\* sample papers.
GetPapers ==
    /\ pc = "fetch"
    /\ \E n \in 1..MaxPapers :
          /\ papers' = [i \in 1..n |-> PaperOf(i)]
          /\ trace' = [i \in 1..n |-> <<>>]
          /\ completed' = [i \in 1..n |-> 0]
          /\ status' = [i \in 1..n |-> "Fetched"]
          /\ gwCalls' = [i \in 1..n |-> [st \in {"summarize", "classify", "novelty", "score"} |-> 0]]
          /\ stageErr' = [i \in 1..n |-> [err |-> "none", cause |-> "none"]]
          /\ saveRet' = [i \in 1..n |-> "none"]
          /\ dbFailed' = [i \in 1..n |-> FALSE]
          /\ used' = [i \in 1..n |->
                        [step \in {Stages[k] : k \in 1..Len(Stages)} |-> NotRun]]
    /\ idx' = 1
    /\ pc' = "summarize"
    /\ UNCHANGED <<summary, classification, assessment, score, rationale, results,
                   origin>>
    /\ UNCHANGED <<parserVars, storeVars>>

Summarize ==
    /\ pc = "summarize"
    /\ \E gw \in BatchGateway("summarize") :
          LET called == summarize_paper(FALSE, gw) IN
          /\ StageBookkeeping("summarize", called)
          /\ summary' = IF called.ok THEN called.value ELSE summary
    /\ UNCHANGED <<papers, classification, assessment, score, rationale,
                   results, saveRet, dbFailed>>
    /\ UNCHANGED <<parserVars, storeVars>>

Classify ==
    /\ pc = "classify"
    /\ \E gw \in BatchGateway("classify") :
          LET called == classify_paper(FALSE, gw) IN
          /\ StageBookkeeping("classify", called)
          /\ classification' = IF called.ok THEN called.value ELSE classification
    /\ UNCHANGED <<papers, summary, assessment, score, rationale,
                   results, saveRet, dbFailed>>
    /\ UNCHANGED <<parserVars, storeVars>>

AssessNovelty ==
    /\ pc = "novelty"
    /\ \E gw \in BatchGateway("novelty") :
          LET called == assess_novelty(FALSE, gw) IN
          /\ StageBookkeeping("novelty", called)
          /\ assessment' = IF called.ok THEN called.value ELSE assessment
    /\ UNCHANGED <<papers, summary, classification, score, rationale,
                   results, saveRet, dbFailed>>
    /\ UNCHANGED <<parserVars, storeVars>>

ScorePaper ==
    /\ pc = "score"
    /\ \E gw \in BatchGateway("score") :
          LET called == score_paper(FALSE, gw) IN
          /\ StageBookkeeping("score", called)
          /\ score' = IF called.ok THEN called.value.score ELSE score
          /\ rationale' = IF called.ok THEN called.value.scoring ELSE rationale
    /\ UNCHANGED <<papers, summary, classification, assessment,
                   results, saveRet, dbFailed>>
    /\ UNCHANGED <<parserVars, storeVars>>

\* The dict built at `result = {...}`; score is the float score_paper returned.
Result(paper, today) ==
    [paper_id |-> paper.id,
     title |-> paper.title,
     authors |-> AuthorList(paper.authors),
     published_date |-> paper.published,
     processed_date |-> DateStr(today),
     summary |-> DictValue(summary),
     classification |-> classification,
     novelty_assessment |-> assessment,
     score |-> IF score = Unbound THEN Unbound ELSE score.v,
     scoring_rationale |-> DictValue(rationale)]

\* The rest of the loop body: build the result, save it, append it.  The
\* value save_paper_analysis returns is not looked at; an exception it raises
\* is handled like a stage's.
Save ==
    /\ pc = "save"
    /\ \E db_ok \in BOOLEAN :
          LET result == Result(papers[idx], now)
              saved == save_paper_analysis(store, result, db_ok, now)
          IN /\ trace' = [trace EXCEPT ![idx] = Append(@, "save")]
             /\ used' = [used EXCEPT ![idx]["save"] =
                            [given |-> {origin[v] : v \in GivenTo("save")},
                             returned |-> result]]
             /\ store' = saved.rows
             /\ dbFailed' = [dbFailed EXCEPT ![idx] = saved.failed]
             /\ IF saved.raised
                THEN /\ saveRet' = [saveRet EXCEPT ![idx] = "raised"]
                     /\ status' = [status EXCEPT ![idx] = "Failed"]
                     /\ stageErr' = [stageErr EXCEPT ![idx] = [err |-> "ValueError", cause |-> "missing"]]
                     /\ UNCHANGED <<results, completed>>
                ELSE /\ saveRet' = [saveRet EXCEPT ![idx] =
                                        IF saved.ret THEN "True" ELSE "False"]
                     /\ results' = Append(results, result)
                     /\ status' = [status EXCEPT ![idx] = "Returned"]
                     /\ completed' = [completed EXCEPT ![idx] = @ + 1]
                     /\ UNCHANGED stageErr
    /\ pc' = AfterPaper(idx, Len(papers))
    /\ idx' = idx + 1
    /\ UNCHANGED <<papers, summary, classification, assessment, score,
                   rationale, gwCalls, origin>>
    /\ UNCHANGED <<store0, now, calls>>
    /\ UNCHANGED parserVars

----------------------------------------------------------------------------
(* The parsers and the stage agents called on their own, as the tests do.  *)

AgentCall(name, sample, gw, result) ==
    /\ op = "none"
    /\ op' = name
    /\ use_sample_data' = sample
    /\ reply' = gw
    /\ out' = result
    /\ UNCHANGED <<batchVars, storeVars>>

ParseClassificationResult ==
    \E r \in ClassificationReplies :
        AgentCall("_parse_classification_result", FALSE, r,
                  _parse_classification_result(r))

ParseNoveltyResult ==
    \E r \in NoveltyReplies :
        AgentCall("_parse_novelty_result", FALSE, r, _parse_novelty_result(r))

ParseScoringResult ==
    \E r \in ScoringReplies :
        AgentCall("_parse_scoring_result", FALSE, r, _parse_scoring_result(r))

ParseSummarySections ==
    \E r \in SummaryReplies :
        AgentCall("_parse_summary_sections", FALSE, r,
                  Return(_parse_summary_sections(r)))

SummarizePaper ==
    \E sample \in BOOLEAN, gw \in {GatewayError} \cup SummaryReplies :
        AgentCall("summarize_paper", sample, gw, summarize_paper(sample, gw))

ClassifyPaper ==
    \E sample \in BOOLEAN, gw \in {GatewayError} \cup ClassificationReplies :
        AgentCall("classify_paper", sample, gw, classify_paper(sample, gw))

AssessNoveltyOfPaper ==
    \E sample \in BOOLEAN, gw \in {GatewayError} \cup NoveltyReplies :
        AgentCall("assess_novelty", sample, gw, assess_novelty(sample, gw))

ScorePaperCall ==
    \E sample \in BOOLEAN, gw \in {GatewayError} \cup ScoringReplies :
        AgentCall("score_paper", sample, gw, score_paper(sample, gw))

----------------------------------------------------------------------------
(* The store called on its own, as the tests do.                           *)

\* The most store operations of a run.
MaxCalls == 3

Doe == <<"Doe">>
Roe == <<"Roe">>
DoeJr == <<"Doe", SEP, "Jr">>

Record(id, authors, s) ==
    [paper_id |-> id, title |-> id, authors |-> authors,
     published_date |-> DateStr(1), processed_date |-> DateStr(1),
     summary |-> StrValue("summary"),
     classification |-> SampleClassification,
     novelty_assessment |-> SampleNovelty,
     score |-> s,
     scoring_rationale |-> StrValue("rationale")]

\* The records the model upserts: every shape of authors, two scores, two
\* identifiers, and a summary that is a dict, as summarize_paper returns it.
StoreRecords ==
    {Record(1, a, 85) :
        a \in {AuthorList(<<>>), AuthorList(<<Doe>>), AuthorList(<<Doe, Roe>>),
               AuthorList(<<DoeJr>>), AuthorString(<<"Doe", SEP, "Roe">>)}}
    \cup {Record(2, AuthorList(<<Doe>>), s) : s \in {85, 40}}
    \cup {Record(1, AuthorList(<<Doe>>), 40)}
    \cup {[Record(1, AuthorList(<<Doe>>), 85) EXCEPT !.summary = DictValue(SampleSummary)]}

\* Records that lack required fields: the one of test_save_invalid_paper,
\* which has an identifier and a title only, and one that lacks its score.
Without(r, fields) == [k \in DOMAIN r \ fields |-> r[k]]
IncompleteRecords ==
    {Without(Record(2, AuthorList(<<Doe>>), 85), RequiredFields \ {"paper_id", "title"}),
     Without(Record(1, AuthorList(<<Doe>>), 40), {"score"})}

SavePaperAnalysis ==
    /\ pc = "idle"
    /\ Len(calls) < MaxCalls
    /\ \E paper_result \in StoreRecords \cup IncompleteRecords, db_ok \in BOOLEAN :
          LET saved == save_paper_analysis(store, paper_result, db_ok, now + 1) IN
          /\ store' = saved.rows
          /\ now' = now + 1
          /\ calls' = Append(calls,
                [op |-> "save", arg |-> paper_result, db_ok |-> db_ok, t |-> now + 1,
                 missing |-> saved.named,
                 total |-> get_statistics(saved.rows, TRUE).total_papers,
                 ret |-> IF saved.raised THEN "raised"
                         ELSE IF saved.ret THEN "True" ELSE "False",
                 after |-> get_paper_by_id(saved.rows, paper_result.paper_id, TRUE)])
    /\ UNCHANGED <<parserVars, batchVars, store0>>

GetPaperById ==
    /\ pc = "idle"
    /\ Len(calls) < MaxCalls
    /\ \E paper_id \in {1, 3}, db_ok \in BOOLEAN :
          calls' = Append(calls,
                [op |-> "get", arg |-> paper_id, db_ok |-> db_ok, t |-> now,
                 missing |-> {},
                 total |-> get_statistics(store, TRUE).total_papers,
                 ret |-> "returned",
                 after |-> get_paper_by_id(store, paper_id, db_ok)])
    /\ UNCHANGED <<parserVars, batchVars, store, store0, now>>

----------------------------------------------------------------------------
(* The queries of the store, called on a store that upserts have filled.   *)

\* The day of the clock when the queries run, and the most upserts before.
Today == 9
MaxSaves == 3

Recent == DateStr(Today)
Old == DateStr(Today - 5)

\* The records the queries run over: three identifiers, equal and different
\* scores, processed dates inside and outside a window of two days, one with
\* a time of day and one that is no date, one classified in the sample's
\* category with another confidence and one classified in another category.
QueryRecord(id, s, date) ==
    [Record(id, AuthorList(<<Doe>>), s) EXCEPT !.processed_date = date]
QueryRecords ==
    {QueryRecord(1, 85, Recent), QueryRecord(1, 40, Old),
     QueryRecord(2, 85, Recent), QueryRecord(2, 85, Old),
     QueryRecord(3, 85, DateTimeStr(Today)), QueryRecord(3, 40, BadDate),
     QueryRecord(3, 95, Old),
     [QueryRecord(2, 85, Recent) EXCEPT
         !.classification = [SampleClassification EXCEPT !.confidence = Num(5)]],
     [QueryRecord(3, 85, Recent) EXCEPT
         !.classification = [SampleClassification EXCEPT !.category = "AI Safety"]]}

\* An upsert that fills the store for the queries.
SaveForQueries ==
    /\ pc = "idle"
    /\ now < MaxSaves
    /\ \E paper_result \in QueryRecords :
          store' = save_paper_analysis(store, paper_result, TRUE, now + 1).rows
    /\ now' = now + 1
    /\ calls' = <<>>
    /\ UNCHANGED <<parserVars, batchVars, store0>>

\* The arguments of get_top_papers: a limit below, at and above the number of
\* rows, no window, a window of 0 and of 2 days, and a failing query.
TopPapersArgs ==
    {[n |-> n, days |-> d, plan |-> p, db_ok |-> TRUE] :
        n \in 0..3, d \in {NoDays, Days(0), Days(2)}, p \in Plans}
    \cup {[n |-> 1, days |-> NoDays, plan |-> "index", db_ok |-> FALSE]}

GetTopPapers ==
    /\ pc = "idle"
    /\ \E a \in TopPapersArgs :
          calls' = <<[op |-> "get_top_papers", n |-> a.n, days |-> a.days,
                      today |-> Today, plan |-> a.plan, db_ok |-> a.db_ok,
                      ret |-> get_top_papers(store, a.n, a.days, Today, a.plan, a.db_ok)]>>
    /\ UNCHANGED <<parserVars, batchVars, store, store0, now>>

GetPapersByDate ==
    /\ pc = "idle"
    /\ \E a \in {[date_str |-> d, db_ok |-> TRUE] :
                    d \in {Old, Recent, DateTimeStr(Today), BadDate}}
                \cup {[date_str |-> Recent, db_ok |-> FALSE]} :
          calls' = <<[op |-> "get_papers_by_date", date_str |-> a.date_str,
                      db_ok |-> a.db_ok,
                      ret |-> get_papers_by_date(store, a.date_str, a.db_ok)]>>
    /\ UNCHANGED <<parserVars, batchVars, store, store0, now>>

GetStatistics ==
    /\ pc = "idle"
    /\ \E db_ok \in BOOLEAN :
          calls' = <<[op |-> "get_statistics", db_ok |-> db_ok,
                      ret |-> get_statistics(store, db_ok)]>>
    /\ UNCHANGED <<parserVars, batchVars, store, store0, now>>

----------------------------------------------------------------------------
(* save_paper_analysis called by several callers at once.  Every call opens
   its own connection (sqlite3.connect, db_manager.py 92); the engine lets
   one connection at a time hold the write lock, from the INSERT OR REPLACE
   to the commit or the close.                                              *)

\* The callers that upsert at the same time.
Callers == 2

\* Two records of paper 1 that differ in authors and score, and one of paper 2.
ConcurrentRecords ==
    {Record(1, AuthorList(<<Doe>>), 85), Record(1, AuthorList(<<Roe>>), 40),
     Record(2, AuthorList(<<Doe>>), 85)}

NotCalled ==
    [op |-> "save", pc |-> "start", arg |-> NoValue, t |-> 0, pending |-> <<>>,
     ret |-> "none", order |-> 0]

\* The call returns False: the except clause logs, `finally` closes the
\* connection, which rolls back what was not committed.
ReturnedFalse(call) == [call EXCEPT !.pc = "returned", !.ret = "False", !.pending = <<>>]

\* A faulty variant: the engine lets every connection write.
WriteLockAlwaysFree(p) == TRUE

\* The write lock of the database file is free for caller p: no other
\* connection holds a transaction that has written and not ended.
WriteLockFree(p) == \A q \in 1..Callers : q = p \/ calls[q].pc # "executed"

\* Lines 69-101: the required fields are there, the connection is opened, the
\* clock is read and the tuple is prepared.
ConnectToSave(p) ==
    /\ pc = "idle"
    /\ calls[p].pc = "start"
    /\ \E paper_result \in ConcurrentRecords, db_ok \in BOOLEAN :
          calls' = [calls EXCEPT ![p] =
                      IF db_ok
                      THEN [calls[p] EXCEPT !.pc = "connected", !.arg = paper_result,
                                            !.t = now + 1]
                      ELSE ReturnedFalse([calls[p] EXCEPT !.arg = paper_result,
                                                          !.t = now + 1])]
    /\ now' = now + 1
    /\ UNCHANGED <<parserVars, batchVars, store, store0>>

\* Lines 104-123: cursor.execute begins a transaction and writes the row into
\* it; the table is not changed for other connections.  It waits while another
\* connection holds the write lock, and fails (a dict to bind, a disk error,
\* "database is locked" when the wait ran out) with nothing written.
ExecuteUpsert(p) ==
    /\ pc = "idle"
    /\ calls[p].pc = "connected"
    /\ \E db_ok \in BOOLEAN :
          IF db_ok /\ Bindable(calls[p].arg)
          THEN /\ WriteLockFree(p)
               /\ calls' = [calls EXCEPT ![p] =
                              [calls[p] EXCEPT !.pc = "executed",
                                        !.pending = InsertOrReplace(store,
                                            RowOf(calls[p].arg, calls[p].t))]]
          ELSE calls' = [calls EXCEPT ![p] = ReturnedFalse(calls[p])]
    /\ UNCHANGED <<parserVars, batchVars, store, store0, now>>

\* Lines 125-131: conn.commit() writes the transaction to the table and frees
\* the lock, and the call returns True; a failing commit returns False.
CommitUpsert(p) ==
    /\ pc = "idle"
    /\ calls[p].pc = "executed"
    /\ \E db_ok \in BOOLEAN :
          IF db_ok
          THEN /\ store' = calls[p].pending
               /\ calls' = [calls EXCEPT ![p] =
                              [calls[p] EXCEPT !.pc = "returned", !.ret = "True",
                                        !.pending = <<>>,
                                        !.order = 1 + Cardinality(
                                            {q \in 1..Callers : calls[q].ret = "True"})]]
          ELSE /\ store' = store
               /\ calls' = [calls EXCEPT ![p] = ReturnedFalse(calls[p])]
    /\ UNCHANGED <<parserVars, batchVars, store0, now>>

----------------------------------------------------------------------------
(* The specifications.                                                     *)

AgentsIdle ==
    /\ reply = GatewayError
    /\ use_sample_data = FALSE
    /\ op = "none"
    /\ out = NoValue

BatchAt(start) ==
    /\ papers = <<>>
    /\ pc = start
    /\ idx = 0
    /\ summary = Unbound
    /\ classification = Unbound
    /\ assessment = Unbound
    /\ score = Unbound
    /\ rationale = Unbound
    /\ origin = [v \in LocalVariables |-> 0]
    /\ used = <<>>
    /\ results = <<>>
    /\ trace = <<>>
    /\ completed = <<>>
    /\ status = <<>>
    /\ gwCalls = <<>>
    /\ stageErr = <<>>
    /\ saveRet = <<>>
    /\ dbFailed = <<>>

StoreHolding(rows) ==
    /\ store = rows
    /\ store0 = rows
    /\ now = 0
    /\ calls = <<>>

\* A parser or an agent is called once on a reply.
InitAgents == AgentsIdle /\ BatchAt("idle") /\ StoreHolding(<<>>)
NextAgents ==
    \/ ParseClassificationResult
    \/ ParseNoveltyResult
    \/ ParseScoringResult
    \/ ParseSummarySections
    \/ SummarizePaper
    \/ ClassifyPaper
    \/ AssessNoveltyOfPaper
    \/ ScorePaperCall
SpecAgents == InitAgents /\ [][NextAgents]_vars

\* One run of analyze_papers, on a store that is empty or holds the record of
\* paper 1 from an earlier upsert.
InitBatch ==
    /\ AgentsIdle
    /\ BatchAt("init")
    /\ \E rows \in {<<>>, <<RowOf(Record(1, AuthorList(<<Doe>>), 40), 0)>>} :
          StoreHolding(rows)
NextBatch ==
    \/ InitializeDatabase
    \/ GetPapers
    \/ Summarize
    \/ Classify
    \/ AssessNovelty
    \/ ScorePaper
    \/ Save
SpecBatch == InitBatch /\ [][NextBatch]_vars

\* The same run when every call it makes returns or raises: the loop of
\* analyze_papers is one thread, so a step that can be taken is taken.  Every
\* step moves the position <<pc, idx>>.
SpecBatchFair == SpecBatch /\ WF_<<pc, idx>>(NextBatch)

\* Direct calls of the store's operations on an initialized, empty table.
InitStore == AgentsIdle /\ BatchAt("idle") /\ StoreHolding(<<>>)
NextStore == SavePaperAnalysis \/ GetPaperById
SpecStore == InitStore /\ [][NextStore]_vars

\* Upserts fill the store, then a query reads it.
InitQueries == AgentsIdle /\ BatchAt("idle") /\ StoreHolding(<<>>)
NextQueries ==
    \/ SaveForQueries
    \/ GetTopPapers
    \/ GetPapersByDate
    \/ GetStatistics
SpecQueries == InitQueries /\ [][NextQueries]_vars

\* Callers upsert at the same time into an initialized, empty table; their
\* steps interleave in every order.
InitConcurrent ==
    /\ AgentsIdle
    /\ BatchAt("idle")
    /\ store = <<>>
    /\ store0 = <<>>
    /\ now = 0
    /\ calls = [p \in 1..Callers |-> NotCalled]
NextConcurrent ==
    \E p \in 1..Callers :
        \/ ConnectToSave(p)
        \/ ExecuteUpsert(p)
        \/ CommitUpsert(p)
SpecConcurrent == InitConcurrent /\ [][NextConcurrent]_vars

----------------------------------------------------------------------------
(* Claims about analyze_papers, checked under SpecBatch.                   *)

Range(seq) == {seq[k] : k \in 1..Len(seq)}
GatewayStages == {"summarize", "classify", "novelty", "score"}
ReturnedIds == {results[k].paper_id : k \in 1..Len(results)}

\* C1: the stages of every paper run in the order summarize, classify, assess
\* novelty, score, save: the stages a paper has started are a prefix of that
\* order (none skipped, repeated or out of order), and a stage has started
\* only when every stage before it has returned.
StageOrder_C1 ==
    \A i \in DOMAIN trace :
        /\ Len(trace[i]) <= Len(Stages)
        /\ trace[i] = SubSeq(Stages, 1, Len(trace[i]))
        /\ completed[i] <= Len(trace[i])
        /\ Len(trace[i]) <= completed[i] + 1

\* A batch in which one paper ran all five stages and another stopped at its
\* second stage.
StageOrderWitness_C1 ==
    \E i, j \in DOMAIN trace :
        /\ trace[i] = Stages /\ completed[i] = 5
        /\ status[j] = "Failed" /\ trace[j] = <<"summarize", "classify">>

\* C2: a stage of a paper that raises does not make analyze_papers raise, the
\* paper is not in the returned list, and every other paper of the batch is
\* still processed: the run raises only before the loop, and when it returns
\* every paper has been started.
FailureIsolation_C2 ==
    /\ pc = "raised" => papers = <<>>
    /\ \A i \in DOMAIN status :
          status[i] = "Failed" =>
              /\ papers[i].id \notin ReturnedIds
              /\ idx > i
              /\ pc \in {"summarize", "classify", "novelty", "score", "save", "done"}
    /\ pc = "done" =>
          \A i \in DOMAIN papers :
              /\ trace[i] # <<>>
              /\ status[i] \in {"Returned", "Failed"}
              /\ status[i] = "Returned" => papers[i].id \in ReturnedIds

\* The gateway raised in the classifier of paper 1 only; paper 2 succeeded
\* and is the one record returned.
FailureIsolationWitness_C2 ==
    /\ pc = "done"
    /\ Len(papers) = 2
    /\ status[1] = "Failed"
    /\ stageErr[1] = [err |-> "RuntimeError", cause |-> "gateway"]
    /\ trace[1] = <<"summarize", "classify">>
    /\ status[2] = "Returned"
    /\ ReturnedIds = {papers[2].id}

\* C3: save_paper_analysis is invoked for a paper only after its four stages
\* have succeeded; a paper that failed at a stage has no save and no row
\* written by this run; the rows the store held before are still there.
NoPartialRecord_C3 ==
    /\ \A i \in DOMAIN trace :
          /\ "save" \in Range(trace[i]) =>
                /\ completed[i] >= 4
                /\ SubSeq(trace[i], 1, 4) = SubSeq(Stages, 1, 4)
                /\ \A st \in GatewayStages : gwCalls[i][st] = 1
          /\ status[i] = "Failed" =>
                /\ saveRet[i] = "none"
                /\ "save" \notin Range(trace[i])
                /\ \A k \in 1..Len(store) :
                      store[k].id = papers[i].id => store[k] \in Range(store0)
    /\ \A k \in 1..Len(store0) :
          \E m \in 1..Len(store) : store[m].id = store0[k].id
    /\ \A k \in 1..Len(store) :
          store[k] \in Range(store0)
          \/ \E i \in DOMAIN saveRet :
                saveRet[i] = "True" /\ papers[i].id = store[k].id /\ completed[i] = 5

\* Paper 1 failed in its scorer, paper 2 reached the save after four stages,
\* and the row stored before the run is still in the store.
NoPartialRecordWitness_C3 ==
    /\ pc = "done"
    /\ Len(papers) = 2
    /\ status[1] = "Failed" /\ Len(trace[1]) = 4
    /\ trace[2] = Stages
    /\ store0 # <<>> /\ store = store0

\* C4 (as claimed): every record analyze_papers returns has been persisted:
\* its upsert returned True and get_paper_by_id returns it with its values.
ReturnedArePersisted_C4 ==
    \A i \in DOMAIN status :
        status[i] = "Returned" =>
            /\ saveRet[i] = "True"
            /\ LET got == get_paper_by_id(store, papers[i].id, TRUE) IN
               /\ got.found
               /\ \E k \in 1..Len(results) :
                     results[k].paper_id = papers[i].id /\ AsRecord(got.paper) = results[k]

\* C5 (as claimed): an error inside an upsert is fatal to the batch: once it
\* has occurred, analyze_papers has raised.
PersistenceErrorFatal_C5 ==
    \A i \in DOMAIN dbFailed : dbFailed[i] => pc = "raised"

\* C5 (amended): an error inside an upsert is caught by save_paper_analysis,
\* which returns False; analyze_papers does not raise, it treats the paper as
\* one that raised nothing and goes on with the next paper.
PersistenceErrorSwallowed_C5 ==
    \A i \in DOMAIN dbFailed :
        dbFailed[i] =>
            /\ saveRet[i] = "False"
            /\ stageErr[i].err = "none"
            /\ pc \in {"summarize", "classify", "novelty", "score", "save", "done"}
            /\ idx > i
            /\ (pc = "done" /\ i < Len(papers)) => trace[i + 1] # <<>>

\* The upsert of paper 1 failed and the run went on to finish paper 2.
PersistenceErrorSwallowedWitness_C5 ==
    /\ pc = "done"
    /\ Len(papers) = 2
    /\ dbFailed[1]
    /\ trace[2] = Stages

----------------------------------------------------------------------------
(* Claims about the parsers and the stage agents, checked under SpecAgents. *)

\* The JSON object the reply in hand decodes to, if it decodes to one.
RepliedObject == Candidate(reply).obj
RepliesObject == reply.gw = "reply" /\ Candidate(reply).json = "object"

\* C7: a record _parse_classification_result returns has a confidence whose
\* float value is within [0, 1], and it is the confidence of the reply, not a
\* clamped one; a reply whose confidence is outside [0, 1] (or is no number)
\* makes the parser raise ValueError and return nothing.
ConfidenceWithin_C7 ==
    op = "_parse_classification_result" =>
        /\ out.ok =>
              /\ RepliesObject
              /\ out.value = RepliedObject
              /\ Float(out.value.confidence).ok
              /\ ~Float(out.value.confidence).nan
              /\ ConfidenceMin <= Float(out.value.confidence).v
              /\ Float(out.value.confidence).v <= ConfidenceMax
        /\ ~out.ok => out.err = "ValueError" /\ out.value = NoValue
        /\ (/\ RepliesObject
            /\ "confidence" \in DOMAIN RepliedObject
            /\ LET f == Float(RepliedObject.confidence) IN
                  ~f.ok \/ f.nan \/ f.v < ConfidenceMin \/ f.v > ConfidenceMax)
              => ~out.ok

\* A complete reply whose confidence is 1.5 is refused for its range.
ConfidenceWithinWitness_C7 ==
    /\ op = "_parse_classification_result"
    /\ RepliesObject
    /\ RequiredClassification \subseteq DOMAIN RepliedObject
    /\ RepliedObject.confidence = Num(ConfidenceMax + Over)
    /\ ~out.ok
    /\ out.err = "ValueError"
    /\ out.cause = "range"

\* C8: a record _parse_novelty_result returns has a score within [1, 10] and
\* one _parse_scoring_result returns has an overall score within [0, 10]; a
\* reply whose score is outside the range makes the parser raise ValueError
\* and return nothing.
ScoresWithin_C8 ==
    /\ op = "_parse_novelty_result" =>
          /\ out.ok =>
                /\ RepliesObject
                /\ out.value = RepliedObject
                /\ Float(out.value.score).ok
                /\ ~Float(out.value.score).nan
                /\ NoveltyMin <= Float(out.value.score).v
                /\ Float(out.value.score).v <= NoveltyMax
          /\ ~out.ok => out.err = "ValueError" /\ out.value = NoValue
          /\ (/\ RepliesObject
              /\ "score" \in DOMAIN RepliedObject
              /\ LET f == Float(RepliedObject.score) IN
                    ~f.ok \/ f.nan \/ f.v < NoveltyMin \/ f.v > NoveltyMax)
                => ~out.ok
    /\ op = "_parse_scoring_result" =>
          /\ out.ok =>
                /\ RepliesObject
                /\ out.value.scoring = RepliedObject
                /\ out.value.score = Float(RepliedObject.score)
                /\ ~out.value.score.nan
                /\ ScoreMin <= out.value.score.v
                /\ out.value.score.v <= ScoreMax
          /\ ~out.ok => out.err = "ValueError" /\ out.value = NoValue
          /\ (/\ RepliesObject
              /\ "score" \in DOMAIN RepliedObject
              /\ LET f == Float(RepliedObject.score) IN
                    ~f.ok \/ f.nan \/ f.v < ScoreMin \/ f.v > ScoreMax)
                => ~out.ok

\* A complete novelty reply whose score is 10.5 is refused for its range.
ScoresWithinWitness_C8 ==
    /\ op = "_parse_novelty_result"
    /\ RepliesObject
    /\ RequiredNovelty \subseteq DOMAIN RepliedObject
    /\ RepliedObject.score = Num(NoveltyMax + Over)
    /\ ~out.ok
    /\ out.err = "ValueError"
    /\ out.cause = "range"

\* The record the scorer returned.
ScorerReturned == op \in {"_parse_scoring_result", "score_paper"} /\ out.ok

\* C9 (as claimed): every record the scorer returns carries a breakdown that
\* maps each of the five criteria to a value within 0-10.
BreakdownComplete_C9 ==
    ScorerReturned =>
        /\ "breakdown" \in DOMAIN out.value.scoring
        /\ out.value.scoring.breakdown.isdict
        /\ \A c \in Criteria :
              /\ c \in DOMAIN out.value.scoring.breakdown.m
              /\ LET f == Float(out.value.scoring.breakdown.m[c]) IN
                    f.ok /\ ~f.nan /\ ScoreMin <= f.v /\ f.v <= ScoreMax

\* C9 (amended): the breakdown is optional and its names are not checked; in
\* a record the scorer returns, every entry of a breakdown that is present is
\* a number within 0-10, and the sample-data record has all five criteria.
BreakdownEntriesWithin_C9 ==
    ScorerReturned =>
        /\ "breakdown" \in DOMAIN out.value.scoring =>
              /\ out.value.scoring.breakdown.isdict
              /\ \A c \in DOMAIN out.value.scoring.breakdown.m :
                    LET x == out.value.scoring.breakdown.m[c] IN
                    /\ x.t \in {"num", "bool"}
                    /\ ScoreMin <= Float(x).v
                    /\ Float(x).v <= ScoreMax
        /\ use_sample_data =>
              /\ "breakdown" \in DOMAIN out.value.scoring
              /\ DOMAIN out.value.scoring.breakdown.m = Criteria

\* A reply whose breakdown lacks practical_value is accepted.
BreakdownEntriesWithinWitness_C9 ==
    /\ op = "_parse_scoring_result"
    /\ out.ok
    /\ "breakdown" \in DOMAIN out.value.scoring
    /\ DOMAIN out.value.scoring.breakdown.m = Criteria \ {"practical_value"}

----------------------------------------------------------------------------
(* Claims about the store, checked under SpecStore.                        *)

\* C10 (as claimed): when a record r whose authors are a list is upserted
\* twice in a row, get_paper_by_id(r.paper_id) then returns r, as it did after
\* the first upsert.
UpsertIdempotent_C10 ==
    \A k \in 1..(Len(calls) - 1) :
        (/\ calls[k].op = "save" /\ calls[k + 1].op = "save"
         /\ calls[k].ret = "True" /\ calls[k + 1].ret = "True"
         /\ calls[k].arg = calls[k + 1].arg
         /\ calls[k].arg.authors.islist)
            => /\ calls[k + 1].after.found
               /\ AsRecord(calls[k + 1].after.paper) = calls[k + 1].arg
               /\ AsRecord(calls[k + 1].after.paper) = AsRecord(calls[k].after.paper)

\* The successful upserts of the run so far, and the one that was the last
\* for an identifier.
Upserts == {k \in 1..Len(calls) : calls[k].op = "save" /\ calls[k].ret = "True"}
UpsertedIds(n) == {calls[k].arg.paper_id : k \in {j \in Upserts : j <= n}}
LastUpsert(id) ==
    CHOOSE k \in Upserts :
        /\ calls[k].arg.paper_id = id
        /\ \A j \in Upserts : calls[j].arg.paper_id = id => j <= k

\* C11: after any sequence of upserts the store holds one row per identifier
\* upserted, the row of the last successful upsert of that identifier; the
\* count of the store (total_papers) is the number of identifiers, so an
\* upsert of a stored identifier leaves it unchanged.
LastWriteWins_C11 ==
    /\ \A a, b \in 1..Len(store) : a # b => store[a].id # store[b].id
    /\ {store[m].id : m \in 1..Len(store)} = UpsertedIds(Len(calls))
    /\ \A id \in UpsertedIds(Len(calls)) :
          \E m \in 1..Len(store) :
              store[m] = RowOf(calls[LastUpsert(id)].arg, calls[LastUpsert(id)].t)
    /\ \A k \in 1..Len(calls) : calls[k].total = Cardinality(UpsertedIds(k))
    /\ get_statistics(store, TRUE).total_papers = Cardinality(UpsertedIds(Len(calls)))

\* Identifier 1 was upserted with score 8.5 and then with score 4.0: one row,
\* of score 4.0, and a count of one after both.
LastWriteWinsWitness_C11 ==
    \E j, k \in Upserts :
        /\ j < k
        /\ calls[j].arg.paper_id = 1 /\ calls[k].arg.paper_id = 1
        /\ calls[j].arg.score = 85 /\ calls[k].arg.score = 40
        /\ calls[j].total = 1 /\ calls[k].total = 1
        /\ k = Len(calls)
        /\ Len(store) = 1 /\ store[1].score = 40

\* C12: save_paper_analysis of a record that lacks a required field raises
\* ValueError naming the missing fields, and the step leaves the store as it
\* was; a record that has them all does not raise.
MissingFieldsRaise_C12 ==
    [][\A k \in 1..Len(calls') :
          (k > Len(calls) /\ calls'[k].op = "save") =>
              LET lacks == RequiredFields \ DOMAIN calls'[k].arg IN
              /\ calls'[k].ret = "raised" <=> lacks # {}
              /\ calls'[k].missing = lacks
              /\ lacks # {} => store' = store]_vars

\* The record of test_save_invalid_paper was refused while the store held a
\* row, which is still the only one.
MissingFieldsRaiseWitness_C12 ==
    /\ Len(calls) >= 2
    /\ calls[Len(calls)].op = "save"
    /\ calls[Len(calls)].ret = "raised"
    /\ DOMAIN calls[Len(calls)].arg = {"paper_id", "title"}
    /\ calls[Len(calls)].missing = RequiredFields \ {"paper_id", "title"}
    /\ Len(store) = 1
    /\ store[1].id = 1

\* C13: get_paper_by_id does not raise; for an identifier without a row it
\* returns None, and for a stored identifier, the store being available, the
\* dict of that identifier's row.
GetByIdTotal_C13 ==
    (calls # <<>> /\ calls[Len(calls)].op = "get") =>
        LET c == calls[Len(calls)]
            held == {m \in 1..Len(store) : store[m].id = c.arg}
        IN /\ c.ret = "returned"
           /\ held = {} => c.after = NotFound
           /\ (held # {} /\ c.db_ok) =>
                 /\ c.after.found
                 /\ c.after.paper.id = c.arg
                 /\ \E m \in held : c.after.paper = DecodedRow(store[m])

\* Identifier 3 was asked for while only identifier 2 and 1 were stored.
GetByIdTotalWitness_C13 ==
    /\ Len(calls) = 3
    /\ calls[3].op = "get" /\ calls[3].arg = 3 /\ calls[3].db_ok
    /\ calls[3].after = NotFound
    /\ Len(store) = 2
    /\ store[1].id = 2

----------------------------------------------------------------------------
(* Claims about the queries of the store, checked under SpecQueries.       *)

\* The query that was made last, on the store as it is.
Queried(name) == calls # <<>> /\ calls[1].op = name

\* The position of a returned paper's row in the table, its rowid order.
RowIdOf(paper) == CHOOSE m \in 1..Len(store) : store[m].id = paper.id

\* C14: get_statistics on a store without a row returns total_papers 0,
\* avg_score 0 and no top category, and zeroed remaining aggregates.
EmptyStatistics_C14 ==
    (Queried("get_statistics") /\ store = <<>>) =>
        /\ calls[1].ret.total_papers = 0
        /\ calls[1].ret.avg_score = 0
        /\ calls[1].ret.max_score = 0
        /\ calls[1].ret.top_categories = <<>>
        /\ calls[1].ret.total_days = 0
        /\ calls[1].ret.first_date = NullDate

\* The statistics were read from the readable, empty store.
EmptyStatisticsWitness_C14 ==
    /\ Queried("get_statistics")
    /\ calls[1].db_ok
    /\ store = <<>>
    /\ now = 0
    /\ calls[1].ret.avg_score = 0

\* The rows get_top_papers is to consider when a window counts as given
\* whenever days is passed: those processed within the last `days` days.
WithinLast(days, today) ==
    {m \in 1..Len(store) :
        ~days.some \/ SqlDateGe(SqlDate(store[m].processed_date),
                                [null |-> FALSE, day |-> today - days.v])}

\* C15 (as claimed): get_top_papers(n, days) returns at most n papers in
\* non-increasing score order, the highest-scoring of the rows considered,
\* which are all rows, or with `days` given the rows processed within the
\* last `days` days.
TopPapers_C15 ==
    (Queried("get_top_papers") /\ calls[1].db_ok) =>
        LET c == calls[1]
            ret == c.ret
            considered == WithinLast(c.days, c.today)
            returned == {RowIdOf(ret[k]) : k \in 1..Len(ret)}
        IN /\ Len(ret) <= c.n
           /\ Len(ret) = IF Cardinality(considered) < c.n
                         THEN Cardinality(considered) ELSE c.n
           /\ \A k \in 1..(Len(ret) - 1) : ret[k].score >= ret[k + 1].score
           /\ Cardinality(returned) = Len(ret)
           /\ returned \subseteq considered
           /\ \A k \in 1..Len(ret) : ret[k] = DecodedRow(store[RowIdOf(ret[k])])
           /\ \A m \in considered \ returned :
                 \A k \in 1..Len(ret) : store[m].score <= ret[k].score

\* C16 (as claimed): papers of equal score are returned by get_top_papers in
\* the order their rows were inserted.
TiesInInsertionOrder_C16 ==
    (Queried("get_top_papers") /\ calls[1].db_ok) =>
        \A k \in 1..(Len(calls[1].ret) - 1) :
            calls[1].ret[k].score = calls[1].ret[k + 1].score =>
                RowIdOf(calls[1].ret[k]) < RowIdOf(calls[1].ret[k + 1])

----------------------------------------------------------------------------
(* Claims about the parsers' handling of replies that do not decode, checked
   under SpecAgents.                                                       *)

\* The reply in hand is text json.loads refuses: prose, with or without JSON
\* in it, and no fenced block around the JSON.
Undecodable ==
    /\ reply.gw = "reply"
    /\ \/ reply.payload.json = "malformed"
       \/ ~reply.fenced /\ reply.prose

\* The reply in hand does not give a valid classification.
ClassificationInvalid ==
    \/ Undecodable
    \/ /\ reply.gw = "reply"
       /\ \/ reply.payload.json # "object"
          \/ ~(RequiredClassification \subseteq DOMAIN reply.payload.obj)
          \/ LET f == Float(reply.payload.obj.confidence) IN
                ~f.ok \/ f.nan \/ f.v < ConfidenceMin \/ f.v > ConfidenceMax

\* C18 (as claimed): a reply that fails to decode or validate does not fail
\* the parser: it returns a fallback record, of confidence 0.5 with the one
\* allowed category the raw reply names, else unclassified with confidence 0.
ClassificationFallback_C18 ==
    (op = "_parse_classification_result" /\ ClassificationInvalid) =>
        /\ out.ok
        /\ out.value.confidence \in {Num(5), Num(0)}
        /\ reply \in ClassificationProse =>
              IF Cardinality(reply.payload.content.names) = 1
              THEN /\ out.value.category \in reply.payload.content.names
                   /\ out.value.confidence = Num(5)
              ELSE out.value.confidence = Num(0)

\* C18 (amended): there is no fallback: a reply that fails to decode or
\* validate makes _parse_classification_result raise ValueError ("Invalid
\* JSON format" when it does not decode) and return nothing, and
\* classify_paper raise RuntimeError, which fails the stage.
ClassificationNoFallback_C18 ==
    /\ (op = "_parse_classification_result" /\ ClassificationInvalid) =>
          /\ ~out.ok
          /\ out.err = "ValueError"
          /\ out.value = NoValue
          /\ Undecodable => out.msg = "Invalid JSON format"
    /\ (op = "classify_paper" /\ ~use_sample_data /\ ClassificationInvalid) =>
          /\ ~out.ok
          /\ out.err = "RuntimeError"
          /\ out.value = NoValue
          /\ out.calls = 1

\* Prose that names exactly one allowed category was refused.
ClassificationNoFallbackWitness_C18 ==
    /\ op = "_parse_classification_result"
    /\ reply = Prose([names |-> {"Computer Vision"}])
    /\ ~out.ok
    /\ out.err = "ValueError"
    /\ out.msg = "Invalid JSON format"

\* C19 (as claimed): a novelty reply in prose with no structured block is
\* parsed by fallback: the score is the number before "/10" and the level is
\* inferred from the keywords, so "8.5/10" with "breakthrough" gives a record
\* of score 8.5 and level Breakthrough.
NoveltyFallback_C19 ==
    (op = "_parse_novelty_result" /\ reply \in NoveltyProse) =>
        /\ out.ok
        /\ out.value.score = Num(reply.payload.content.ratio)
        /\ "breakthrough" \in reply.payload.content.keywords =>
              out.value.level = "Breakthrough"

\* C19 (amended): there is no fallback: a novelty reply with no structured
\* block that json.loads refuses makes _parse_novelty_result raise ValueError
\* ("Invalid JSON format") and return no record, whatever score or keyword the
\* prose holds, and assess_novelty raise RuntimeError.
NoveltyNoFallback_C19 ==
    /\ (op = "_parse_novelty_result" /\ Undecodable) =>
          /\ ~out.ok
          /\ out.err = "ValueError"
          /\ out.msg = "Invalid JSON format"
          /\ out.value = NoValue
    /\ (op = "assess_novelty" /\ ~use_sample_data /\ Undecodable) =>
          /\ ~out.ok
          /\ out.err = "RuntimeError"
          /\ out.value = NoValue

\* Prose holding "8.5/10" and "breakthrough" was refused.
NoveltyNoFallbackWitness_C19 ==
    /\ op = "_parse_novelty_result"
    /\ reply = Prose([ratio |-> 85, keywords |-> {"breakthrough"}])
    /\ ~out.ok
    /\ out.err = "ValueError"
    /\ out.msg = "Invalid JSON format"

\* C20: a classification whose category is outside the interested fields and
\* is not "Other", and a novelty assessment whose level is outside the four
\* levels, are returned with that value unchanged when the required fields
\* are there and the numbers and lists are valid.
OpenSetAccepted_C20 ==
    /\ (/\ op = "_parse_classification_result"
        /\ ~ClassificationInvalid) =>
          /\ out.ok
          /\ out.value = reply.payload.obj
          /\ out.value.category = reply.payload.obj.category
    /\ (/\ op = "_parse_novelty_result"
        /\ ~Undecodable
        /\ reply.payload.json = "object"
        /\ RequiredNovelty \subseteq DOMAIN reply.payload.obj
        /\ LET f == Float(reply.payload.obj.score) IN
              f.ok /\ ~f.nan /\ NoveltyMin <= f.v /\ f.v <= NoveltyMax
        /\ reply.payload.obj.strengths.t = "list"
        /\ reply.payload.obj.limitations.t = "list") =>
          /\ out.ok
          /\ out.value = reply.payload.obj
          /\ out.value.level = reply.payload.obj.level

\* A classification of category "Quantum Computing" was returned.
OpenSetAcceptedWitness_C20 ==
    /\ op = "_parse_classification_result"
    /\ out.ok
    /\ out.value.category = "Quantum Computing"
    /\ out.value.category \notin InterestedFields \cup {"Other"}

----------------------------------------------------------------------------
(* Claims about the errors of the parsers, checked under SpecAgents.       *)

ParserOps ==
    {"_parse_classification_result", "_parse_novelty_result",
     "_parse_scoring_result"}

\* The fields the parser in hand requires, its numeric field and whether that
\* field lies in the parser's range.
RequiredOf(name) ==
    CASE name = "_parse_classification_result" -> RequiredClassification
      [] name = "_parse_novelty_result" -> RequiredNovelty
      [] OTHER -> {"score", "rationale"}
NumericInRange(name, obj) ==
    CASE name = "_parse_classification_result" -> ConfidenceInRange(Float(obj.confidence))
      [] name = "_parse_novelty_result" -> NoveltyInRange(Float(obj.score))
      [] OTHER -> ScoreInRange(Float(obj.score))
NumericReads(name, obj) ==
    IF name = "_parse_classification_result" THEN Float(obj.confidence).ok
    ELSE Float(obj.score).ok

\* The three conditions of the reply in hand.
PayloadMalformed == Candidate(reply).json = "malformed"
FieldMissing ==
    \/ Candidate(reply).json = "array"
    \/ /\ Candidate(reply).json = "object"
       /\ ~(RequiredOf(op) \subseteq DOMAIN Candidate(reply).obj)
ValueOutOfRange ==
    /\ Candidate(reply).json = "object"
    /\ RequiredOf(op) \subseteq DOMAIN Candidate(reply).obj
    /\ NumericReads(op, Candidate(reply).obj)
    /\ ~NumericInRange(op, Candidate(reply).obj)
BreakdownEntryInvalid ==
    /\ op = "_parse_scoring_result"
    /\ Candidate(reply).json = "object"
    /\ "breakdown" \in DOMAIN Candidate(reply).obj
    /\ Candidate(reply).obj.breakdown.isdict
    /\ \E k \in DOMAIN Candidate(reply).obj.breakdown.m :
          ~SubScoreValid(Candidate(reply).obj.breakdown.m[k])

\* C21: the error of a parser tells which condition the reply violated: a
\* payload that does not decode gives "Invalid JSON format", a payload without
\* a required field gives an error whose text holds "Missing required fields",
\* a numeric value outside its range gives one whose text holds "Invalid ...
\* value"; and an error of one of the three texts is raised only for a reply
\* of that condition.
ErrorsTellTheCondition_C21 ==
    op \in ParserOps =>
        /\ PayloadMalformed =>
              ~out.ok /\ out.err = "ValueError"
                      /\ out.msg = "Invalid JSON format" /\ out.cause = "malformed"
        /\ FieldMissing =>
              ~out.ok /\ out.err = "ValueError"
                      /\ out.msg = "Failed to parse" /\ out.cause = "missing"
        /\ ValueOutOfRange =>
              ~out.ok /\ out.err = "ValueError"
                      /\ out.msg = "Failed to parse" /\ out.cause = "range"
        /\ (~out.ok /\ out.cause = "malformed") => PayloadMalformed
        /\ (~out.ok /\ out.cause = "missing") => FieldMissing
        /\ (~out.ok /\ out.cause = "range") =>
              ValueOutOfRange \/ BreakdownEntryInvalid

\* The scorer's parser refused a reply whose score is 10.5.
ErrorsTellTheConditionWitness_C21 ==
    /\ op = "_parse_scoring_result"
    /\ ValueOutOfRange
    /\ Candidate(reply).obj.score = Num(ScoreMax + Over)
    /\ ~out.ok
    /\ out.cause = "range"

----------------------------------------------------------------------------
(* Claims about the sections of a summary, checked under SpecAgents.       *)

SectionNames ==
    {"research_problem", "methodology", "innovations", "findings", "impact"}

\* The lines of the reply in hand that are headings of the section.
HeadingLines(section) ==
    {i \in 1..Len(reply.lines) :
        reply.lines[i].text # "" /\ HeadingSection(reply.lines[i]) = section}

\* C22: _parse_summary_sections returns exactly the five fields
\* research_problem, methodology, innovations, findings and impact for every
\* reply, and a field whose heading does not occur in the reply is empty.
FiveSections_C22 ==
    op = "_parse_summary_sections" =>
        /\ out.ok
        /\ DOMAIN out.value = SectionNames
        /\ \A section \in SectionNames :
              HeadingLines(section) = {} => out.value[section] = <<>>

\* A reply of text, then the heading of the research problem: the text is in
\* no section.
FiveSectionsWitness_C22 ==
    /\ op = "_parse_summary_sections"
    /\ Len(reply.lines) = 2
    /\ reply.lines[1].text = "text one"
    /\ HeadingLines("research_problem") = {2}
    /\ DOMAIN out.value = SectionNames
    /\ \A section \in SectionNames : out.value[section] = <<>>

\* C23 (as claimed): the text that follows a heading on the heading's line is
\* content of that section: "Research Problem: Test problem" alone gives
\* research_problem = "Test problem", and likewise for the other headings.
SameLineText_C23 ==
    op = "_parse_summary_sections" =>
        \A section \in SectionNames : \A i \in HeadingLines(section) :
            reply.lines[i].rest # "" =>
                \E j \in 1..Len(out.value[section]) :
                    out.value[section][j] = reply.lines[i].rest

----------------------------------------------------------------------------
(* Claims about upserts made at the same time, checked under SpecConcurrent. *)

\* The callers whose upsert returned True, and among them the one that
\* committed last for the paper of caller p.
Committed == {p \in 1..Callers : calls[p].ret = "True"}
LastCommitted(p) ==
    CHOOSE q \in Committed :
        /\ calls[q].arg.paper_id = calls[p].arg.paper_id
        /\ \A r \in Committed :
              calls[r].arg.paper_id = calls[p].arg.paper_id =>
                  calls[r].order <= calls[q].order

----------------------------------------------------------------------------
(* Claims about the completion of a batch, checked under SpecBatch and
   SpecBatchFair.                                                          *)

\* Paper i of the batch was stored by this run.
Persisted(i) ==
    /\ saveRet[i] = "True"
    /\ get_paper_by_id(store, papers[i].id, TRUE).found

\* C26, termination: when every gateway and store call returns or raises,
\* analyze_papers comes to its end: it returns, or it raises what
\* initialize_database raised.
AnalyzePapersTerminates == <>(pc \in {"done", "raised"})

\* C26 (as claimed): when analyze_papers has ended, every paper of the batch
\* has reached exactly one of Persisted and Failed.
PersistedOrFailed_C26 ==
    pc = "done" =>
        \A i \in 1..Len(papers) : (status[i] = "Failed") # Persisted(i)

----------------------------------------------------------------------------
(* Claims about the local variables of the loop, checked under SpecBatch.  *)

\* C27: every stage of paper p is given only values that were assigned in
\* p's own iteration, also after an earlier paper failed; the record of p is
\* built from values assigned in p's iteration and holds exactly what the
\* four stages returned for p.
RecordFromOwnIteration_C27 ==
    /\ \A p \in DOMAIN used : \A step \in DOMAIN used[p] :
          used[p][step].given \subseteq {p}
    /\ \A k \in 1..Len(results) :
          LET p == results[k].paper_id IN
          /\ results[k] = used[p]["save"].returned
          /\ results[k].summary = DictValue(used[p]["summarize"].returned)
          /\ results[k].classification = used[p]["classify"].returned
          /\ results[k].novelty_assessment = used[p]["novelty"].returned
          /\ results[k].score = used[p]["score"].returned.score.v
          /\ results[k].scoring_rationale = DictValue(used[p]["score"].returned.scoring)

\* Paper 1 failed in its scoring after its other stages had returned, and
\* the record of paper 2 holds outputs that differ from those paper 1 left.
RecordFromOwnIterationWitness_C27 ==
    /\ pc = "done"
    /\ Len(papers) = 2
    /\ status[1] = "Failed"
    /\ trace[1] = <<"summarize", "classify", "novelty", "score">>
    /\ Len(results) = 1
    /\ results[1].paper_id = 2
    /\ used[2]["save"].given = {2}
    /\ used[1]["summarize"].returned # used[2]["summarize"].returned
    /\ used[1]["classify"].returned # used[2]["classify"].returned
    /\ results[1].classification = used[2]["classify"].returned

----------------------------------------------------------------------------
(* Claims about the category counts of get_statistics, checked under
   SpecQueries.                                                            *)

\* The stored rows classified in the category.
RowsOfCategory(category) ==
    {k \in 1..Len(store) : Loads(store[k].classification).category = category}

\* C28 (as claimed): in the result of get_statistics every category occurs at
\* most once in top_categories, with the number of stored rows of that
\* category as its count, also when those rows differ in confidence or
\* rationale; the entries are ordered by count, largest first, and are at
\* most five.
CategoryCounts_C28 ==
    (Queried("get_statistics") /\ calls[1].db_ok) =>
        LET top == calls[1].ret.top_categories IN
        /\ Len(top) <= TopCategoriesLimit
        /\ \A a, b \in 1..Len(top) : a < b => top[a].count >= top[b].count
        /\ \A a, b \in 1..Len(top) : top[a].category = top[b].category => a = b
        /\ \A a \in 1..Len(top) :
              top[a].count = Cardinality(RowsOfCategory(top[a].category))

----------------------------------------------------------------------------
(* Claims about the authors column and about a failing upsert, checked under
   SpecStore.                                                              *)

\* C29 (as claimed): the authors of a record come back from the store as the
\* sequence of names that was saved: get_paper_by_id after a successful
\* upsert of a record whose authors are a list returns that list, the empty
\* list and names that hold a comma included.
AuthorsRoundTrip_C29 ==
    \A k \in 1..Len(calls) :
        (/\ calls[k].op = "save"
         /\ calls[k].ret = "True"
         /\ calls[k].arg.authors.islist) =>
            /\ calls[k].after.found
            /\ calls[k].after.paper.authors = calls[k].arg.authors.v

\* C30: for a record that holds every required field save_paper_analysis
\* does not raise; it returns True exactly when the upsert was committed, the
\* table then being the old one with the record's row put in; when it
\* returns False the table is unchanged, and get_paper_by_id returns for the
\* record's identifier what it returned before the call.
FailedSaveChangesNothing_C30 ==
    [][\A k \in 1..Len(calls') :
          (/\ k > Len(calls)
           /\ calls'[k].op = "save"
           /\ RequiredFields \subseteq DOMAIN calls'[k].arg) =>
              /\ calls'[k].ret \in {"True", "False"}
              /\ calls'[k].ret = "True" <=> store' # store
              /\ calls'[k].ret = "True" =>
                    store' = InsertOrReplace(store, RowOf(calls'[k].arg, calls'[k].t))
              /\ calls'[k].ret = "False" =>
                    /\ store' = store
                    /\ calls'[k].after =
                          get_paper_by_id(store, calls'[k].arg.paper_id, TRUE)]_vars

\* Paper 1 was stored with score 8.5; an upsert of paper 1 with score 4.0
\* then returned False, and the paper read back has score 8.5.
FailedSaveChangesNothingWitness_C30 ==
    /\ Len(calls) = 2
    /\ calls[1].op = "save" /\ calls[1].ret = "True"
    /\ calls[1].arg.paper_id = 1 /\ calls[1].arg.score = 85
    /\ calls[2].op = "save" /\ calls[2].ret = "False"
    /\ calls[2].arg.paper_id = 1 /\ calls[2].arg.score = 40
    /\ RequiredFields \subseteq DOMAIN calls[2].arg
    /\ calls[2].after.found
    /\ calls[2].after.paper.score = 85
    /\ Len(store) = 1

====
